---- MODULE Spec2Model ----
(***************************************************************************)
(* Model of the benchmarking pipeline of benchmark-the-code:               *)
(*   model.py      ModelBenchmark (session, generate_solution with retry)  *)
(*   utils.py      format_completion                                       *)
(*   benchmark.py  benchmark_model (the per-model Runner)                  *)
(*   cli.py        main (sequential / parallel batch orchestration)        *)
(*                                                                         *)
(* Texts are sequences of tokens: "def" is one occurrence of the           *)
(* function-definition marker, "ws" one whitespace character, "x" any      *)
(* other text.  An Optional value is a sequence of length at most one:     *)
(* None is << >> and a present value v is << v >>.  A float is a fraction  *)
(* [num, den]; the evaluator's pass@1 is a mean of 0/1 outcomes, for which *)
(* the code's multiplication and division are exact.                       *)
(***************************************************************************)
EXTENDS Integers, Sequences, FiniteSets, TLC

\* ---------------------------------------------------------------- bounds
NumModels == 2
MaxProblems == 2
MaxRetries == 3
MaxTextLen == 3

\* ------------------------------------------------------ program constants
DefaultRetries == 3
DefaultTimeout == 300

Models == 1..NumModels

None == << >>
Some(v) == << v >>

\* The external problem set: task ids with their prompts, in iteration order.
AllProblems == [i \in 1..MaxProblems |-> [task_id |-> i, prompt |-> i]]

\* What one HTTP exchange can produce.
\*   neterr  : connection error or timeout (requests.exceptions.RequestException)
\*   http    : a non-2xx status (raise_for_status raises HTTPError)
\*   nofield : a 2xx JSON object without the "response" key (KeyError)
\*   ok      : a 2xx JSON object whose "response" is the given text
ResponseTexts == { <<"x">>, <<"def", "x">>, <<"x", "def", "ws", "def">> }

Responses == { [kind |-> "neterr", text |-> << >>],
               [kind |-> "http", text |-> << >>],
               [kind |-> "nofield", text |-> << >>] }
             \cup { [kind |-> "ok", text |-> t] : t \in ResponseTexts }

\* The evaluator's pass@1 values (fractions).
PassAt1Values == { [num |-> 0, den |-> 1], [num |-> 1, den |-> 2] }

\* The values of --timeout: the default, or another number of seconds.
TimeoutValues == { DefaultTimeout, 60 }

\* The values of --samples: absent, or an integer.
SampleValues == { None } \cup { Some(k) : k \in -1..(MaxProblems + 1) }

VARIABLES
    parallel,           \* args.parallel
    samples,            \* args.samples (Optional int)
    timeoutArg,         \* args.timeout
    retries,            \* the retries argument of generate_solution
    problems,           \* read_problems(): the shared problem set
    mainPc,             \* position of cli.main
    model_completions,  \* cli.main: the collected per-model results
    reported,           \* models whose metrics main printed
    pc,                 \* per model: position of benchmark_model
    probs,              \* per model: the local `problems` (working subset)
    total,              \* per model: the local `total`
    idx,                \* per model: number of problems already iterated
    results,            \* per model: the local `results`
    successful,         \* per model: the local `successful`
    got,                \* per model: problems for which the client returned a completion
    malformed,          \* per model: times the "malformed completion" branch was taken
    all_completions,    \* per model: the list written for the evaluator
    tempfile,           \* per model: "none", "exists" or "removed"
    evalCalls,          \* per model: invocations of the evaluator
    evalOutcome,        \* per model: how the evaluator ended: "none", "metrics", "raised"
    ret,                \* per model: the value benchmark_model returned
    sessions,           \* every requests.Session created: [owner, state, closes]
    client,             \* per model: the ModelBenchmark object [session, timeout]
    call,               \* per model: the running generate_solution call
    lastReq,            \* per model: the last request issued (Optional)
    saved,              \* per model: the outcome of save_results, once called (Optional)
    fmtIn,              \* the arguments of the last format_completion call (Optional)
    fmtOut,             \* the value that call returned (Optional record)
    lpc,                \* single-file variant: position of main's result loop
    li                  \* single-file variant: models the result loop has taken

vars == << parallel, samples, retries, problems, mainPc, model_completions, reported,
           pc, probs, total, idx, results, successful, all_completions, tempfile,
           evalCalls, evalOutcome, ret, sessions, client, call, lastReq,
           timeoutArg, saved, fmtIn, fmtOut, lpc, li, got, malformed >>

mainVars == << mainPc, model_completions, reported >>
argVars == << parallel, samples, retries, problems, timeoutArg >>
sideVars == << saved, fmtIn, fmtOut, lpc, li >>
evalVars == << all_completions, tempfile, evalCalls, evalOutcome, ret >>
loopVars == << probs, total, idx, results, successful, got, malformed >>
clientVars == << sessions, client >>

\* ------------------------------------------------------------ Python helpers
Min(a, b) == IF a < b THEN a ELSE b
Max(a, b) == IF a > b THEN a ELSE b

RECURSIVE Pow2(_)
Pow2(k) == IF k <= 0 THEN 1 ELSE 2 * Pow2(k - 1)

\* seq[:k]
Slice(seq, k) ==
    IF k >= 0 THEN SubSeq(seq, 1, Min(k, Len(seq)))
    ELSE SubSeq(seq, 1, Max(Len(seq) + k, 0))

\* Truthiness of an Optional int: None and 0 are false.
Truthy(optInt) == optInt # None /\ optInt[1] # 0

\* "def" in completion
HasDef(text) == \E i \in 1..Len(text) : text[i] = "def"

\* completion.find("def"), 1-based; 0 when absent
FindDef(text) ==
    IF HasDef(text)
    THEN CHOOSE i \in 1..Len(text) :
            text[i] = "def" /\ \A j \in 1..(i - 1) : text[j] # "def"
    ELSE 0

\* completion[completion.find("def"):]
FromDef(text) == SubSeq(text, FindDef(text), Len(text))

\* str.strip()
RECURSIVE LStrip(_)
LStrip(text) ==
    IF text # << >> /\ Head(text) = "ws" THEN LStrip(Tail(text)) ELSE text

RECURSIVE RStrip(_)
RStrip(text) ==
    IF text # << >> /\ text[Len(text)] = "ws"
    THEN RStrip(SubSeq(text, 1, Len(text) - 1)) ELSE text

Strip(text) == RStrip(LStrip(text))

\* str.startswith("def")
StartsWithDef(text) == text # << >> /\ Head(text) = "def"

\* Variant: the record is built without looking at the text.
format_completion_NoCheck(task_id, completion) ==
    Some([task_id |-> task_id, completion |-> completion, prompt |-> None])

\* utils.format_completion: Optional record
format_completion(task_id, completion) ==
    IF ~ StartsWithDef(Strip(completion))
    THEN None
    ELSE Some([task_id |-> task_id, completion |-> completion, prompt |-> None])

\* ------------------------------------------------------------------- Init
IdleCall == [status |-> "idle", prompt |-> 0, attempt |-> 0,
             resps |-> << >>, text |-> << >>, sleeps |-> << >>, ret |-> None]

InitRunners ==
    /\ pc = [m \in Models |-> "idle"]
    /\ probs = [m \in Models |-> << >>]
    /\ total = [m \in Models |-> 0]
    /\ idx = [m \in Models |-> 0]
    /\ results = [m \in Models |-> << >>]
    /\ successful = [m \in Models |-> 0]
    /\ got = [m \in Models |-> 0]
    /\ malformed = [m \in Models |-> 0]
    /\ all_completions = [m \in Models |-> << >>]
    /\ tempfile = [m \in Models |-> "none"]
    /\ evalCalls = [m \in Models |-> 0]
    /\ evalOutcome = [m \in Models |-> "none"]
    /\ ret = [m \in Models |-> None]
    /\ sessions = << >>
    /\ client = [m \in Models |-> None]
    /\ call = [m \in Models |-> IdleCall]
    /\ lastReq = [m \in Models |-> None]

InitSide ==
    /\ saved = [m \in Models |-> None]
    /\ fmtIn = None
    /\ fmtOut = None
    /\ lpc = "off"
    /\ li = 0

Init ==
    /\ parallel \in BOOLEAN
    /\ samples \in SampleValues
    /\ timeoutArg \in TimeoutValues
    /\ InitSide
    /\ retries = DefaultRetries
    /\ problems = AllProblems
    /\ mainPc = "start"
    /\ model_completions = << >>
    /\ reported = { }
    /\ InitRunners

\* --------------------------------------------------- model.py: ModelBenchmark
\* requests.Session(): a new session object
NewSessionId(ss) == Len(ss) + 1

\* ModelBenchmark.__init__ (timeout keeps its default: the caller passes none)
NewClient(ss, m) == [session |-> NewSessionId(ss), timeout |-> DefaultTimeout]

OpenSession(ss, m) ==
    IF NewSessionId(ss) > Len(ss)
    THEN Append(ss, [owner |-> m, state |-> "open", closes |-> 0])
    ELSE ss

\* ModelBenchmark.__exit__: self.session.close()
CloseSession(ss, sid) ==
    [ss EXCEPT ![sid] = [@ EXCEPT !.state = "closed", !.closes = @ + 1]]

\* generate_solution is entered: range(retries) is empty when retries <= 0
StartCall(prompt, r) ==
    IF r <= 0
    THEN [IdleCall EXCEPT !.status = "returned", !.prompt = prompt]
    ELSE [IdleCall EXCEPT !.status = "running", !.prompt = prompt]

\* Variant: the backoff sleep is taken before the last attempt is recognised.
GenStep_SleepBeforeCheck(c, resp, r) ==
    LET c1 == [c EXCEPT !.resps = Append(@, resp.kind), !.text = resp.text] IN
    CASE resp.kind \in {"neterr", "http"} ->
            IF c.attempt = r - 1
            THEN [c1 EXCEPT !.status = "returned", !.ret = None,
                            !.sleeps = Append(@, Pow2(c.attempt))]
            ELSE [c1 EXCEPT !.sleeps = Append(@, Pow2(c.attempt)),
                            !.attempt = @ + 1]
      [] resp.kind = "nofield" ->
            [c1 EXCEPT !.status = "raised"]
      [] resp.kind = "ok" ->
            IF HasDef(resp.text)
            THEN [c1 EXCEPT !.status = "returned", !.ret = Some(FromDef(resp.text))]
            ELSE [c1 EXCEPT !.status = "returned", !.ret = None]

\* Variant: the response text is returned as it came, without trimming.
GenStep_Untrimmed(c, resp, r) ==
    LET c1 == [c EXCEPT !.resps = Append(@, resp.kind), !.text = resp.text] IN
    CASE resp.kind \in {"neterr", "http"} ->
            IF c.attempt = r - 1
            THEN [c1 EXCEPT !.status = "returned", !.ret = None]
            ELSE [c1 EXCEPT !.sleeps = Append(@, Pow2(c.attempt)),
                            !.attempt = @ + 1]
      [] resp.kind = "nofield" ->
            [c1 EXCEPT !.status = "raised"]
      [] resp.kind = "ok" ->
            IF HasDef(resp.text)
            THEN [c1 EXCEPT !.status = "returned", !.ret = Some(resp.text)]
            ELSE [c1 EXCEPT !.status = "returned", !.ret = None]

\* Variant: a response without the marker is retried like a failed request.
GenStep_RetryWithoutDef(c, resp, r) ==
    LET c1 == [c EXCEPT !.resps = Append(@, resp.kind), !.text = resp.text] IN
    CASE resp.kind \in {"neterr", "http"} \/ (resp.kind = "ok" /\ ~ HasDef(resp.text)) ->
            IF c.attempt = r - 1
            THEN [c1 EXCEPT !.status = "returned", !.ret = None]
            ELSE [c1 EXCEPT !.sleeps = Append(@, Pow2(c.attempt)),
                            !.attempt = @ + 1]
      [] resp.kind = "nofield" ->
            [c1 EXCEPT !.status = "raised"]
      [] resp.kind = "ok" /\ HasDef(resp.text) ->
            [c1 EXCEPT !.status = "returned", !.ret = Some(FromDef(resp.text))]

\* One iteration of the retry loop of generate_solution, given the outcome
\* of session.post.
GenStep(c, resp, r) ==
    LET c1 == [c EXCEPT !.resps = Append(@, resp.kind), !.text = resp.text] IN
    CASE resp.kind \in {"neterr", "http"} ->
            IF c.attempt = r - 1
            THEN [c1 EXCEPT !.status = "returned", !.ret = None]
            ELSE [c1 EXCEPT !.sleeps = Append(@, Pow2(c.attempt)),
                            !.attempt = @ + 1]
      [] resp.kind = "nofield" ->
            [c1 EXCEPT !.status = "raised"]
      [] resp.kind = "ok" ->
            IF HasDef(resp.text)
            THEN [c1 EXCEPT !.status = "returned", !.ret = Some(FromDef(resp.text))]
            ELSE [c1 EXCEPT !.status = "returned", !.ret = None]

\* The request of one attempt, as issued on the client's session.
Request(m, cl, c, ss) ==
    [model |-> m, prompt |-> c.prompt, timeout |-> cl.timeout,
     session |-> cl.session, session_state |-> ss[cl.session].state]

\* self.session.post(...) and the handling of its outcome
Post(m) ==
    /\ call[m].status = "running"
    /\ client[m] # None
    /\ \E resp \in Responses :
          call' = [call EXCEPT ![m] = GenStep(call[m], resp, retries)]
    /\ lastReq' = [lastReq EXCEPT ![m] = Some(Request(m, client[m][1], call[m], sessions))]
    /\ UNCHANGED << argVars, sideVars, mainVars, pc, loopVars, evalVars, clientVars >>

\* ------------------------------------------------ benchmark.py: benchmark_model
\* cli.main has started this model's Runner
Scheduled(m) ==
    IF parallel
    THEN mainPc \in {"collect", "unwinding"}
    ELSE mainPc = "seq" /\ Len(model_completions) = m - 1

\* total = num_samples if num_samples else len(problems)
Total(num_samples, ps) == IF Truthy(num_samples) THEN num_samples[1] ELSE Len(ps)

\* if num_samples: problems = dict(list(problems.items())[:num_samples])
WorkingSubset(num_samples, ps) ==
    IF Truthy(num_samples) THEN Slice(ps, num_samples[1]) ELSE ps

\* Variant: the shared mapping itself is cut down to the sample limit.
SharedProblemsAfterSlice_InPlace(num_samples, ps) == WorkingSubset(num_samples, ps)

\* lines 16-17: the slice is a new dict bound to the local name `problems`;
\* the mapping the caller passed is left as it was
SharedProblemsAfterSlice(num_samples, ps) == ps

\* lines 12-19: locals, then `with ModelBenchmark(model) as benchmark`
RunnerStart(m) ==
    /\ pc[m] = "idle"
    /\ Scheduled(m)
    /\ results' = [results EXCEPT ![m] = << >>]
    /\ successful' = [successful EXCEPT ![m] = 0]
    /\ UNCHANGED << got, malformed >>
    /\ total' = [total EXCEPT ![m] = Total(samples, problems)]
    /\ probs' = [probs EXCEPT ![m] = WorkingSubset(samples, problems)]
    /\ idx' = [idx EXCEPT ![m] = 0]
    /\ sessions' = OpenSession(sessions, m)
    /\ client' = [client EXCEPT ![m] = Some(NewClient(sessions, m))]
    /\ pc' = [pc EXCEPT ![m] = "loop"]
    /\ problems' = SharedProblemsAfterSlice(samples, problems)
    /\ UNCHANGED << parallel, samples, retries, timeoutArg, sideVars, mainVars,
                    evalVars, call, lastReq >>

\* Variant: the problems are taken from the end of the working subset.
CurrentProblem_Reversed(ps, done) == ps[Len(ps) - done]

\* line 21: the item the for-loop is at, after `done` items
CurrentProblem(ps, done) == ps[done + 1]

\* lines 21-22: the next problem of the iteration, generate_solution is called
CallGenerate(m) ==
    /\ pc[m] = "loop"
    /\ idx[m] < Len(probs[m])
    /\ call' = [call EXCEPT ![m] = StartCall(CurrentProblem(probs[m], idx[m]).prompt, retries)]
    /\ pc' = [pc EXCEPT ![m] = "calling"]
    /\ UNCHANGED << argVars, sideVars, mainVars, loopVars, evalVars, clientVars, lastReq >>

\* lines 23-32: the completion is formatted and recorded, or the task skipped
Record(res, task_id, completion) ==
    IF completion # None /\ format_completion(task_id, completion[1]) # None
    THEN Append(res, format_completion(task_id, completion[1])[1])
    ELSE res

HandleCompletion(m) ==
    /\ pc[m] = "calling"
    /\ call[m].status = "returned"
    /\ LET task_id == CurrentProblem(probs[m], idx[m]).task_id
           res == Record(results[m], task_id, call[m].ret)
       IN /\ results' = [results EXCEPT ![m] = res]
          /\ successful' = [successful EXCEPT ![m] = @ + (Len(res) - Len(results[m]))]
          /\ got' = [got EXCEPT ![m] = IF call[m].ret # None THEN @ + 1 ELSE @]
          /\ malformed' = [malformed EXCEPT ![m] =
                              IF call[m].ret # None /\ res = results[m] THEN @ + 1 ELSE @]
    /\ idx' = [idx EXCEPT ![m] = @ + 1]
    /\ call' = [call EXCEPT ![m] = IdleCall]
    /\ pc' = [pc EXCEPT ![m] = "loop"]
    /\ UNCHANGED << argVars, sideVars, mainVars, probs, total, evalVars, clientVars, lastReq >>

\* Variant: no scoped cleanup, an exception leaves the session open.
ExitOnRaise_Leak(ss, sid) == ss

\* line 19: the with-block is left by an exception of generate_solution;
\* __exit__ closes the session and the exception leaves benchmark_model
ExitOnRaise(ss, sid) == CloseSession(ss, sid)

GenerateRaised(m) ==
    /\ pc[m] = "calling"
    /\ call[m].status = "raised"
    /\ sessions' = ExitOnRaise(sessions, client[m][1].session)
    /\ call' = [call EXCEPT ![m] = IdleCall]
    /\ pc' = [pc EXCEPT ![m] = "raised"]
    /\ UNCHANGED << argVars, sideVars, mainVars, loopVars, evalVars, client, lastReq >>

\* lines 19-37: the iteration is exhausted, the with-block is left normally
LoopExit(m) ==
    /\ pc[m] = "loop"
    /\ idx[m] >= Len(probs[m])
    /\ sessions' = CloseSession(sessions, client[m][1].session)
    /\ pc' = [pc EXCEPT ![m] = "build"]
    /\ UNCHANGED << argVars, sideVars, mainVars, loopVars, evalVars, client, call, lastReq >>

\* lines 40-55: completion_map and the full completion set
InMap(res, task_id) == \E j \in 1..Len(res) : res[j].task_id = task_id

\* a dict comprehension keeps the last value written for a key
MapGet(res, task_id) ==
    LET j == CHOOSE k \in 1..Len(res) :
                /\ res[k].task_id = task_id
                /\ \A l \in (k + 1)..Len(res) : res[l].task_id # task_id
    IN res[j].completion

\* Variant: only the recorded completions are written, failures are omitted.
BuildAllCompletions_OnlyRecorded(ps, res) ==
    [i \in 1..Len(res) |->
        [task_id |-> res[i].task_id, completion |-> res[i].completion, prompt |-> None]]

BuildAllCompletions(ps, res) ==
    [i \in 1..Len(ps) |->
        IF InMap(res, ps[i].task_id)
        THEN [task_id |-> ps[i].task_id, completion |-> MapGet(res, ps[i].task_id),
              prompt |-> None]
        ELSE [task_id |-> ps[i].task_id, completion |-> << >>, prompt |-> None]]

\* lines 39-59: the full set is built and written to the temporary file, and
\* the evaluator is invoked on it
BuildFull(m) ==
    /\ pc[m] = "build"
    /\ all_completions' = [all_completions EXCEPT ![m] = BuildAllCompletions(probs[m], results[m])]
    /\ tempfile' = [tempfile EXCEPT ![m] = "exists"]
    /\ evalCalls' = [evalCalls EXCEPT ![m] = @ + 1]
    /\ pc' = [pc EXCEPT ![m] = "evaluating"]
    /\ UNCHANGED << argVars, sideVars, mainVars, loopVars, evalOutcome, ret, clientVars, call, lastReq >>

\* Variant: the scaling is applied without the guard for an empty list.
PassRate_Unguarded(metrics, ps, res) ==
    [num |-> metrics.pass1.num * Len(ps), den |-> metrics.pass1.den * Len(res)]

\* Variant: the raw pass@1 is reported unscaled.
PassRate_Raw(metrics, ps, res) ==
    IF res # << >> THEN metrics.pass1 ELSE [num |-> 0, den |-> 1]

\* Variant: the file is deleted by hand after the evaluator has returned.
TempAfterWith_KeptOnError(outcome) ==
    IF outcome = "raised" THEN "exists" ELSE "removed"

\* lines 57-59: leaving the with-block of NamedTemporaryFile deletes the
\* file, however the block is left
TempAfterWith(outcome) == "removed"

\* lines 61-64: attempted_pass_rate
PassRate(metrics, ps, res) ==
    IF res # << >>
    THEN [num |-> metrics.pass1.num * Len(ps), den |-> metrics.pass1.den * Len(res)]
    ELSE [num |-> 0, den |-> 1]

\* lines 66-72: final_results
FinalResults(metrics, ps, res, tot) ==
    [completions |-> res,
     metrics |-> metrics,
     attempted |-> Len(res),
     total_requested |-> tot,
     pass_rate |-> PassRate(metrics, ps, res)]

\* lines 59-79: the evaluator returns metrics; the temporary file is removed
\* when its with-block is left, and the result is returned
EvalReturn(m) ==
    /\ pc[m] = "evaluating"
    /\ \E p \in PassAt1Values :
          ret' = [ret EXCEPT ![m] =
                    Some(FinalResults([pass1 |-> p], probs[m], results[m], total[m]))]
    /\ evalOutcome' = [evalOutcome EXCEPT ![m] = "metrics"]
    /\ tempfile' = [tempfile EXCEPT ![m] = TempAfterWith("metrics")]
    /\ pc' = [pc EXCEPT ![m] = "returned"]
    /\ UNCHANGED << argVars, sideVars, mainVars, loopVars, all_completions, evalCalls,
                    clientVars, call, lastReq >>

\* Variant: the exception of the evaluator is logged and raised again.
OnEvalException_Reraise == [pc |-> "raised", ret |-> None]

\* lines 81-86: what benchmark_model does with an exception of the evaluator:
\* it is caught and None is returned
OnEvalException == [pc |-> "returned", ret |-> None]

\* lines 59, 81-86: the evaluator raises; the temporary file is removed when
\* its with-block is left
EvalRaise(m) ==
    /\ pc[m] = "evaluating"
    /\ evalOutcome' = [evalOutcome EXCEPT ![m] = "raised"]
    /\ tempfile' = [tempfile EXCEPT ![m] = TempAfterWith("raised")]
    /\ ret' = [ret EXCEPT ![m] = OnEvalException.ret]
    /\ pc' = [pc EXCEPT ![m] = OnEvalException.pc]
    /\ UNCHANGED << argVars, sideVars, mainVars, loopVars, all_completions, evalCalls,
                    clientVars, call, lastReq >>

\* ------------------------------------------------------------ cli.py: main
runnerVars == << pc, loopVars, evalVars, clientVars, call, lastReq >>

Finished(m) == pc[m] \in {"returned", "raised"}

\* line 38: if args.parallel; lines 39-43: every future is submitted
MainDispatch ==
    /\ mainPc = "start"
    /\ mainPc' = IF parallel THEN "collect" ELSE "seq"
    /\ UNCHANGED << argVars, sideVars, model_completions, reported, runnerVars >>

\* Variant: the futures are taken in reverse order of submission.
NextCollected_Reversed(done) == NumModels - Len(done)

\* line 44: which future's result is taken next: the futures in list order
NextCollected(done) == Len(done) + 1

\* line 44: f.result() of the next future, once its worker has returned
Collect ==
    /\ mainPc = "collect"
    /\ LET k == NextCollected(model_completions) IN
          /\ k \in Models
          /\ pc[k] = "returned"
          /\ model_completions' = Append(model_completions, ret[k])
          /\ mainPc' = IF Len(model_completions) + 1 = NumModels THEN "report" ELSE "collect"
    /\ UNCHANGED << argVars, sideVars, reported, runnerVars >>

\* line 44: f.result() re-raises the worker's exception; leaving the
\* executor's with-block waits for the workers still running
CollectRaise ==
    /\ mainPc = "collect"
    /\ LET k == NextCollected(model_completions) IN
          /\ k \in Models
          /\ pc[k] = "raised"
    /\ mainPc' = "unwinding"
    /\ UNCHANGED << argVars, sideVars, model_completions, reported, runnerVars >>

Unwind ==
    /\ mainPc = "unwinding"
    /\ \A m \in Models : Finished(m)
    /\ mainPc' = "crashed"
    /\ UNCHANGED << argVars, sideVars, model_completions, reported, runnerVars >>

\* lines 46-49: the call of benchmark_model for the next model returns
SeqReturn ==
    /\ mainPc = "seq"
    /\ LET k == Len(model_completions) + 1 IN
          /\ k \in Models
          /\ pc[k] = "returned"
          /\ model_completions' = Append(model_completions, ret[k])
          /\ mainPc' = IF k = NumModels THEN "report" ELSE "seq"
    /\ UNCHANGED << argVars, sideVars, reported, runnerVars >>

\* lines 46-49: the call raises, and the exception leaves main
SeqRaise ==
    /\ mainPc = "seq"
    /\ LET k == Len(model_completions) + 1 IN
          /\ k \in Models
          /\ pc[k] = "raised"
    /\ mainPc' = "crashed"
    /\ UNCHANGED << argVars, sideVars, model_completions, reported, runnerVars >>

\* lines 51-54: the metrics of every model with a result are printed
Report ==
    /\ mainPc = "report"
    /\ reported' = { m \in 1..Len(model_completions) : model_completions[m] # None }
    /\ mainPc' = "done"
    /\ UNCHANGED << argVars, sideVars, model_completions, runnerVars >>

\* ------------------------------------------------------------ specification
Runner(m) ==
    \/ RunnerStart(m)
    \/ CallGenerate(m)
    \/ Post(m)
    \/ HandleCompletion(m)
    \/ GenerateRaised(m)
    \/ LoopExit(m)
    \/ BuildFull(m)
    \/ EvalReturn(m)
    \/ EvalRaise(m)

Next ==
    \/ MainDispatch
    \/ Collect
    \/ CollectRaise
    \/ Unwind
    \/ SeqReturn
    \/ SeqRaise
    \/ Report
    \/ \E m \in Models : Runner(m)

Spec == Init /\ [][Next]_vars

\* ------------------------------------- the Generation Client on its own
\* A caller that constructs a ModelBenchmark, calls generate_solution with
\* any retries argument while the client's scope lasts, and leaves the scope.
InitClient ==
    /\ parallel = FALSE
    /\ samples = None
    /\ timeoutArg = DefaultTimeout
    /\ InitSide
    /\ retries \in 0..MaxRetries
    /\ problems = AllProblems
    /\ mainPc = "client"
    /\ model_completions = << >>
    /\ reported = { }
    /\ InitRunners

harnessVars == << argVars, sideVars, mainVars, pc, loopVars, evalVars >>

\* ModelBenchmark(model), __enter__
ClientNew(m) ==
    /\ client[m] = None
    /\ sessions' = OpenSession(sessions, m)
    /\ client' = [client EXCEPT ![m] = Some(NewClient(sessions, m))]
    /\ UNCHANGED << harnessVars, call, lastReq >>

\* generate_solution(prompt, retries)
ClientCall(m) ==
    /\ client[m] # None
    /\ sessions[client[m][1].session].state = "open"
    /\ call[m].status # "running"
    /\ \E i \in 1..Len(problems) :
          call' = [call EXCEPT ![m] = StartCall(problems[i].prompt, retries)]
    /\ UNCHANGED << harnessVars, clientVars, lastReq >>

\* __exit__
ClientExit(m) ==
    /\ client[m] # None
    /\ sessions[client[m][1].session].state = "open"
    /\ call[m].status # "running"
    /\ sessions' = CloseSession(sessions, client[m][1].session)
    /\ UNCHANGED << harnessVars, client, call, lastReq >>

\* one client: clients share nothing, so a second one adds no behaviour
NextClient ==
    \/ ClientNew(1)
    \/ ClientCall(1)
    \/ Post(1)
    \/ ClientExit(1)

SpecClient == InitClient /\ [][NextClient]_vars

\* ---------------------------------------- the Completion Formatter on its own
\* Any text of up to MaxTextLen tokens.
Tokens == {"def", "ws", "x"}
Texts == UNION { [1..n -> Tokens] : n \in 0..MaxTextLen }

InitFormat ==
    /\ parallel = FALSE
    /\ samples = None
    /\ timeoutArg = DefaultTimeout
    /\ retries = DefaultRetries
    /\ problems = AllProblems
    /\ mainPc = "format"
    /\ model_completions = << >>
    /\ reported = { }
    /\ InitSide
    /\ InitRunners

\* benchmark.py lines 24-30 for the next task id and any completion text:
\* format_completion is called and its record, if any, is appended to results
FormatAndRecord(m) ==
    /\ mainPc = "format"
    /\ idx[m] < Len(problems)
    /\ \E text \in Texts :
          LET task_id == problems[idx[m] + 1].task_id IN
          /\ fmtIn' = Some([task_id |-> task_id, completion |-> text])
          /\ fmtOut' = format_completion(task_id, text)
          /\ results' = [results EXCEPT ![m] = Record(@, task_id, Some(text))]
    /\ idx' = [idx EXCEPT ![m] = @ + 1]
    /\ UNCHANGED << argVars, mainVars, saved, lpc, li, pc, probs, total, successful,
                    got, malformed, evalVars, clientVars, call, lastReq >>

NextFormat == FormatAndRecord(1)

SpecFormat == InitFormat /\ [][NextFormat]_vars

\* ------------------------------------------------- utils.py: save_results
\* The step of save_results at which an I/O error occurs, if any.
SaveFailPoints == {"none", "mkdir", "completions", "metrics"}

\* Variant: no try/except around the writes.
save_results_Unprotected(fail) ==
    [fail |-> fail,
     completions_written |-> fail \in {"none", "metrics"},
     metrics_written |-> fail = "none",
     ret |-> fail = "none",
     raised |-> fail # "none"]

\* mkdir, write_jsonl of the completions, json.dump of the metrics, return
\* True; any exception on the way is logged and False is returned
save_results(fail) ==
    [fail |-> fail,
     completions_written |-> fail \in {"none", "metrics"},
     metrics_written |-> fail = "none",
     ret |-> fail = "none",
     raised |-> FALSE]

\* --------------------------- benchmark-the-code.py: the result loop of main
\* The completion lists that the generation stage hands to the loop.
LegacyCompletions ==
    { << >>,
      << [task_id |-> 1, completion |-> <<"def", "x">>, prompt |-> None] >> }

InitLegacy ==
    /\ parallel \in BOOLEAN
    /\ samples \in SampleValues
    /\ timeoutArg = DefaultTimeout
    /\ retries = DefaultRetries
    /\ problems = AllProblems
    /\ mainPc = "legacy"
    /\ model_completions \in [Models -> LegacyCompletions]
    /\ reported = { }
    /\ saved = [m \in Models |-> None]
    /\ fmtIn = None
    /\ fmtOut = None
    /\ lpc = "next"
    /\ li = 0
    /\ InitRunners

legacyFrame == << argVars, fmtIn, fmtOut, mainPc, model_completions, pc, loopVars,
                 all_completions, evalCalls, clientVars, call, lastReq >>

\* lines 182-183: the outer except logs, and the for-loop goes on
OuterExcept == "next"

\* lines 147-150: the loop takes the next model; without completions it logs
\* and continues
LegacyNext ==
    /\ lpc = "next"
    /\ li < NumModels
    /\ li' = li + 1
    /\ lpc' = IF model_completions[li + 1] = << >> THEN "next" ELSE "eval"
    /\ UNCHANGED << legacyFrame, reported, saved, tempfile, evalOutcome, ret >>

\* lines 158-164: results
LegacyResults(completions, metrics, num_samples, ps) ==
    [completions |-> completions,
     metrics |-> metrics,
     attempted |-> Len(completions),
     total_requested |-> Total(num_samples, ps),
     pass_rate |-> metrics.pass1]

\* lines 152-175: the completions are evaluated; an exception is logged,
\* raised again and caught by the outer except
LegacyEvaluate ==
    /\ lpc = "eval"
    /\ \/ /\ \E p \in PassAt1Values :
                ret' = [ret EXCEPT ![li] =
                          Some(LegacyResults(model_completions[li], [pass1 |-> p],
                                             samples, problems))]
          /\ evalOutcome' = [evalOutcome EXCEPT ![li] = "metrics"]
          /\ tempfile' = [tempfile EXCEPT ![li] = TempAfterWith("metrics")]
          /\ lpc' = "save"
       \/ /\ evalOutcome' = [evalOutcome EXCEPT ![li] = "raised"]
          /\ tempfile' = [tempfile EXCEPT ![li] = TempAfterWith("raised")]
          /\ lpc' = OuterExcept
          /\ ret' = ret
    /\ UNCHANGED << legacyFrame, li, reported, saved >>

\* lines 177-183: save_results; the metrics are printed when it returns True
LegacySave ==
    /\ lpc = "save"
    /\ \E fail \in SaveFailPoints :
          LET o == save_results(fail) IN
          /\ saved' = [saved EXCEPT ![li] = Some(o)]
          /\ reported' = IF ~ o.raised /\ o.ret THEN reported \cup {li} ELSE reported
          /\ lpc' = IF o.raised THEN OuterExcept ELSE "next"
    /\ UNCHANGED << legacyFrame, li, tempfile, evalOutcome, ret >>

NextLegacy ==
    \/ LegacyNext
    \/ LegacyEvaluate
    \/ LegacySave

SpecLegacy == InitLegacy /\ [][NextLegacy]_vars

\* ================================================================ claims
FracEq(a, b) == a.den # 0 /\ b.den # 0 /\ a.num * b.den = b.num * a.den

\* C1: whenever the evaluator has been invoked for a model, the full
\* completion set handed to it has exactly one record per problem of the
\* working subset, in the subset's order, holding the accepted completion of
\* that task id if one was recorded and the empty string otherwise; no task id
\* appears twice.
C1_FullCompletionSet ==
    \A m \in Models :
        evalCalls[m] > 0 =>
            LET ps == probs[m]
                full == all_completions[m]
                res == results[m]
            IN /\ Len(full) = Len(ps)
               /\ \A i \in 1..Len(ps) :
                     /\ full[i].task_id = ps[i].task_id
                     /\ \A j \in 1..Len(res) :
                           res[j].task_id = ps[i].task_id =>
                               full[i].completion = res[j].completion
                     /\ (\A j \in 1..Len(res) : res[j].task_id # ps[i].task_id) =>
                               full[i].completion = << >>
               /\ \A i, k \in 1..Len(full) :
                     full[i].task_id = full[k].task_id => i = k

\* a run in which the first problem failed and the second was accepted
C1_Witness ==
    \E m \in Models :
        /\ evalCalls[m] = 1
        /\ Len(all_completions[m]) = 2
        /\ all_completions[m][1].completion = << >>
        /\ all_completions[m][2].completion # << >>

\* C2: every non-null result has total_requested = min(samples, size of the
\* problem set) when a (positive) sample limit is given and the size of the
\* problem set otherwise.
C2_TotalRequestedIsMin ==
    \A m \in Models :
        ret[m] # None =>
            /\ samples = None => ret[m][1].total_requested = Len(problems)
            /\ (samples # None /\ samples[1] >= 1) =>
                  ret[m][1].total_requested = Min(samples[1], Len(problems))

\* C3: once main has ended, however it ended, every model's Runner has run
\* to completion and every model with a non-null result has been reported.
C3_FailureIsolated ==
    mainPc \in {"done", "crashed"} =>
        \A m \in Models :
            /\ Finished(m)
            /\ (pc[m] = "returned" /\ ret[m] # None) => m \in reported

\* C4: an exception of the evaluator makes benchmark_model return None for
\* that model and never leaves it; main then ends normally unless some Runner
\* raised while generating, with one entry per model: None for a model whose
\* evaluator raised and, for a model whose evaluator returned, the result
\* built from that model's own completions.
C4_EvaluatorFailureContained ==
    /\ \A m \in Models :
          evalOutcome[m] = "raised" => pc[m] = "returned" /\ ret[m] = None
    /\ mainPc = "crashed" => \E m \in Models : evalOutcome[m] = "none" /\ pc[m] = "raised"
    /\ mainPc = "done" =>
          /\ Len(model_completions) = NumModels
          /\ \A m \in Models :
                /\ evalOutcome[m] = "raised" => model_completions[m] = None
                /\ evalOutcome[m] = "metrics" =>
                      /\ model_completions[m] # None
                      /\ model_completions[m][1].completions = results[m]
                      /\ model_completions[m][1].attempted = Len(results[m])

\* scenario C: the first model succeeds on every problem, the second model's
\* evaluation raises
C4_Witness ==
    /\ mainPc = "done"
    /\ evalOutcome[1] = "metrics"
    /\ evalOutcome[NumModels] = "raised"
    /\ Len(model_completions) = NumModels
    /\ model_completions[1] # None
    /\ model_completions[1][1].attempted = Len(problems)
    /\ model_completions[NumModels] = None

\* C5: in parallel mode every collected entry i is the value returned by the
\* Runner of model i, is collected only after that Runner has returned, and
\* the list handed to reporting has exactly one entry per model.
C5_ParallelOrder ==
    parallel =>
        /\ Len(model_completions) <= NumModels
        /\ \A i \in 1..Len(model_completions) :
              pc[i] = "returned" /\ model_completions[i] = ret[i]
        /\ mainPc \in {"report", "done"} => Len(model_completions) = NumModels

\* a parallel run whose first model returned None and whose last model
\* returned a result
C5_Witness ==
    /\ parallel
    /\ mainPc = "done"
    /\ model_completions[1] = None
    /\ model_completions[NumModels] # None

\* C6: a call with retries >= 1 that has met only network errors has not
\* raised; while it runs it has slept 2^k after each failed attempt k so far;
\* once it has returned it has issued exactly `retries` requests, slept
\* 2^0 .. 2^(retries-2) and returned None.
AllNetErr(c) == \A i \in 1..Len(c.resps) : c.resps[i] = "neterr"

C6_RetryBackoff ==
    \A m \in Models :
        (retries >= 1 /\ AllNetErr(call[m])) =>
            LET c == call[m] IN
            /\ c.status # "raised"
            /\ c.status = "running" =>
                  /\ Len(c.resps) < retries
                  /\ c.sleeps = [k \in 1..Len(c.resps) |-> Pow2(k - 1)]
            /\ c.status = "returned" =>
                  /\ Len(c.resps) = retries
                  /\ c.sleeps = [k \in 1..(retries - 1) |-> Pow2(k - 1)]
                  /\ c.ret = None

\* the default: three network errors, sleeps of 1 s and 2 s
C6_Witness ==
    \E m \in Models :
        /\ retries = DefaultRetries
        /\ call[m].status = "returned"
        /\ call[m].resps = <<"neterr", "neterr", "neterr">>
        /\ call[m].sleeps = <<1, 2>>
        /\ call[m].ret = None

\* C7: a non-2xx response or a body without the `response` field never makes
\* generate_solution raise: after such a response the call is either still
\* retrying or has returned None with all attempts used.
C7_MalformedIsRetried ==
    \A m \in Models :
        LET c == call[m] IN
        (c.resps # << >> /\ c.resps[Len(c.resps)] \in {"http", "nofield"}) =>
            \/ c.status = "running" /\ Len(c.resps) < retries
            \/ c.status = "returned" /\ c.ret = None /\ Len(c.resps) = retries

\* C8: a Runner that reaches evaluation with no accepted completion has
\* invoked the evaluator exactly once, on a full set of empty completions with
\* one record per problem; if the evaluator returned, the result is non-null
\* with attempted = 0 and pass_rate = 0.0.
C8_NothingAttempted ==
    \A m \in Models :
        (results[m] = << >> /\ pc[m] \in {"evaluating", "returned"}) =>
            /\ evalCalls[m] = 1
            /\ Len(all_completions[m]) = Len(probs[m])
            /\ \A i \in 1..Len(all_completions[m]) :
                  all_completions[m][i].completion = << >>
            /\ evalOutcome[m] = "metrics" =>
                  /\ ret[m] # None
                  /\ ret[m][1].attempted = 0
                  /\ ret[m][1].pass_rate = [num |-> 0, den |-> 1]

\* scenario B: two problems, both without an accepted completion
C8_Witness ==
    \E m \in Models :
        /\ pc[m] = "returned"
        /\ Len(probs[m]) = 2
        /\ results[m] = << >>
        /\ ret[m] # None
        /\ ret[m][1].metrics.pass1.num # 0

\* C9: in every non-null result, pass_rate equals the raw pass@1 when
\* attempted = total_requested, and equals raw pass@1 * (size of the working
\* subset) / attempted whenever attempted > 0.
C9_PassRate ==
    \A m \in Models :
        ret[m] # None =>
            LET r == ret[m][1]
                raw == r.metrics.pass1
            IN /\ r.attempted = r.total_requested => FracEq(r.pass_rate, raw)
               /\ r.attempted > 0 =>
                     FracEq(r.pass_rate,
                            [num |-> raw.num * Len(probs[m]), den |-> raw.den * r.attempted])

\* scenario A: both problems accepted, a non-zero raw pass@1
C9_Witness ==
    \E m \in Models :
        /\ ret[m] # None
        /\ ret[m][1].attempted = 2
        /\ ret[m][1].total_requested = 2
        /\ ret[m][1].metrics.pass1.num # 0

\* C10: every Runner that has started owns a session of its own; the session
\* is open and never closed while the generation loop runs, and closed exactly
\* once after the loop has been left, normally or by an exception; every
\* request was issued on the Runner's own session while it was open.
C10_SessionLifecycle ==
    /\ \A m \in Models :
          pc[m] # "idle" =>
              /\ client[m] # None
              /\ client[m][1].session \in 1..Len(sessions)
              /\ LET s == sessions[client[m][1].session] IN
                    /\ s.owner = m
                    /\ pc[m] \in {"loop", "calling"} => s.state = "open" /\ s.closes = 0
                    /\ pc[m] \in {"build", "evaluating", "returned", "raised"} =>
                          s.state = "closed" /\ s.closes = 1
    /\ \A m \in Models :
          lastReq[m] # None =>
              /\ lastReq[m][1].session_state = "open"
              /\ lastReq[m][1].session = client[m][1].session
              /\ sessions[lastReq[m][1].session].owner = m
    /\ \A m1, m2 \in Models :
          (m1 # m2 /\ client[m1] # None /\ client[m2] # None) =>
              client[m1][1].session # client[m2][1].session

\* one Runner left its loop by an exception, another one normally, both
\* after issuing requests
C10_Witness ==
    \E m1, m2 \in Models :
        /\ pc[m1] = "raised"
        /\ pc[m2] = "returned"
        /\ lastReq[m1] # None
        /\ lastReq[m2] # None
        /\ sessions[client[m1][1].session].closes = 1
        /\ sessions[client[m2][1].session].closes = 1

\* C11: when main has ended normally, every model whose Runner returned a
\* non-null result has had that result handed to save_results.
C11_ResultsPersisted ==
    mainPc = "done" =>
        \A m \in Models : ret[m] # None => saved[m] # None

\* C12: every request carries the timeout given by --timeout (300 when the
\* flag is absent).
C12_TimeoutFromCli ==
    \A m \in Models :
        lastReq[m] # None => lastReq[m][1].timeout = timeoutArg

\* C13: format_completion returns a record exactly when the text, stripped
\* of leading whitespace, begins with the marker "def"; the record holds the
\* task id, the text unchanged and no prompt; so every completion stored in
\* results begins with "def" after stripping leading whitespace.
C13_FormatterContract ==
    /\ fmtIn # None =>
          LET text == fmtIn[1].completion
              task_id == fmtIn[1].task_id
          IN /\ fmtOut # None <=> StartsWithDef(LStrip(text))
             /\ fmtOut # None =>
                   fmtOut[1] = [task_id |-> task_id, completion |-> text, prompt |-> None]
    /\ \A m \in Models : \A j \in 1..Len(results[m]) :
          StartsWithDef(LStrip(results[m][j].completion))

\* a text with leading whitespace was accepted and stored unchanged, and a
\* text with the marker in the middle was rejected
C13_Witness ==
    /\ Len(results[1]) = 1
    /\ results[1][1].completion = <<"ws", "def", "ws">>
    /\ fmtIn # None
    /\ fmtIn[1].completion = <<"x", "def">>
    /\ fmtOut = None

\* C14: the temporary file exists while the evaluator runs, and does not
\* exist once benchmark_model has returned or raised, whether the evaluator
\* returned metrics or raised.
C14_TempFileScoped ==
    \A m \in Models :
        /\ pc[m] = "evaluating" => tempfile[m] = "exists"
        /\ pc[m] \in {"returned", "raised"} => tempfile[m] # "exists"
        /\ evalOutcome[m] # "none" => tempfile[m] = "removed"

\* one Runner's evaluator raised, another one's returned metrics
C14_Witness ==
    \E m1, m2 \in Models :
        /\ pc[m1] = "returned" /\ evalOutcome[m1] = "raised" /\ tempfile[m1] = "removed"
        /\ pc[m2] = "returned" /\ evalOutcome[m2] = "metrics" /\ tempfile[m2] = "removed"

\* C15: once a request of a call has obtained a successful response, the
\* call has returned: that response is its only successful one and its last
\* one, every sleep follows a failed attempt, and the value returned is the
\* text from its first "def" onward, or None when the text has no "def",
\* whatever number of attempts remain.
IsFromFirstDef(text, out) ==
    \E k \in 1..Len(text) :
        /\ text[k] = "def"
        /\ \A j \in 1..(k - 1) : text[j] # "def"
        /\ out = [i \in 1..(Len(text) - k + 1) |-> text[i + k - 1]]

C15_SuccessEndsCall ==
    \A m \in Models :
        LET c == call[m] IN
        (\E i \in 1..Len(c.resps) : c.resps[i] = "ok") =>
            /\ c.status = "returned"
            /\ c.resps[Len(c.resps)] = "ok"
            /\ \A i \in 1..(Len(c.resps) - 1) : c.resps[i] # "ok"
            /\ Len(c.sleeps) = Len(c.resps) - 1
            /\ IF \E k \in 1..Len(c.text) : c.text[k] = "def"
               THEN c.ret # None /\ IsFromFirstDef(c.text, c.ret[1])
               ELSE c.ret = None

\* the first response has no "def": the call returned None with two
\* attempts left and without sleeping
C15_Witness ==
    \E m \in Models :
        /\ retries = DefaultRetries
        /\ call[m].status = "returned"
        /\ call[m].resps = <<"ok">>
        /\ call[m].text = <<"x">>
        /\ call[m].sleeps = << >>
        /\ call[m].ret = None

\* C16: within a Runner the only call under way is the one for the first
\* problem not yet processed; the last request issued belongs to the problem
\* being processed or to the one processed last; the evaluator is invoked only
\* when every problem has been processed; and results holds processed
\* problems only, in the order of the working subset.
PosOf(ps, task_id) == CHOOSE k \in 1..Len(ps) : ps[k].task_id = task_id

C16_SequentialInOrder ==
    \A m \in Models :
        LET ps == probs[m] IN
        /\ idx[m] \in 0..Len(ps)
        /\ call[m].status # "idle" =>
              /\ pc[m] = "calling"
              /\ idx[m] < Len(ps)
              /\ call[m].prompt = ps[idx[m] + 1].prompt
        /\ lastReq[m] # None =>
              \E k \in 1..Len(ps) :
                  /\ ps[k].prompt = lastReq[m][1].prompt
                  /\ k - 1 <= idx[m]
                  /\ idx[m] <= k
                  /\ idx[m] = k - 1 => pc[m] \in {"calling", "raised"}
        /\ evalCalls[m] > 0 => idx[m] = Len(ps)
        /\ \A j \in 1..Len(results[m]) :
              /\ \E k \in 1..idx[m] : ps[k].task_id = results[m][j].task_id
              /\ \A j2 \in (j + 1)..Len(results[m]) :
                    PosOf(ps, results[m][j].task_id) < PosOf(ps, results[m][j2].task_id)

\* in parallel mode, a Runner has recorded its first problem and is retrying
\* the request of its second one while another Runner is in a call as well
C16_Witness ==
    \E m1, m2 \in Models :
        /\ m1 # m2
        /\ parallel
        /\ pc[m1] = "calling" /\ idx[m1] = 1 /\ Len(results[m1]) = 1
        /\ call[m1].status = "running" /\ call[m1].attempt = 1
        /\ call[m2].status = "running"

\* C17: at every moment of a batch the shared problem mapping has the keys,
\* the order and the prompts it was loaded with.
C17_ProblemSetUnchanged ==
    /\ problems = AllProblems
    /\ \A i \in 1..Len(problems) : problems[i] = [task_id |-> i, prompt |-> i]

\* in parallel mode, one Runner has finished on a working subset shorter than
\* the problem set while another Runner is still generating
C17_Witness ==
    \E m1, m2 \in Models :
        /\ parallel
        /\ pc[m1] = "returned"
        /\ Len(probs[m1]) = 1
        /\ Len(problems) = MaxProblems
        /\ pc[m2] = "calling"

\* C18: save_results never raises, returns True only when both files were
\* written and False whenever a step failed; and the result loop of the
\* single-file variant takes every model in turn: whatever happened to the
\* models before it, a model with completions is evaluated, saved if its
\* evaluation returned, and reported exactly if it was saved.
C18_PersistenceContained ==
    /\ \A m \in Models :
          saved[m] # None =>
              LET o == saved[m][1] IN
              /\ ~ o.raised
              /\ o.ret => (o.completions_written /\ o.metrics_written)
              /\ o.fail # "none" => ~ o.ret
    /\ lpc \in {"next", "eval", "save"}
    /\ li \in 0..NumModels
    /\ \A m \in 1..li :
          (m < li \/ lpc = "next") =>
              IF model_completions[m] = << >>
              THEN evalOutcome[m] = "none" /\ saved[m] = None /\ m \notin reported
              ELSE /\ evalOutcome[m] \in {"metrics", "raised"}
                   /\ evalOutcome[m] = "metrics" <=> saved[m] # None
                   /\ m \in reported <=> (saved[m] # None /\ saved[m][1].ret)

\* the metrics file of the first model could not be written, and the last
\* model was still evaluated, saved and reported
C18_Witness ==
    /\ lpc = "next"
    /\ li = NumModels
    /\ saved[1] # None
    /\ saved[1][1].fail = "metrics"
    /\ saved[1][1].completions_written
    /\ ~ saved[1][1].ret
    /\ 1 \notin reported
    /\ NumModels \in reported

\* C19: every completion that generate_solution returns begins with "def"
\* and is accepted by format_completion; so a Runner never takes the
\* "malformed completion" branch, and the number of recorded completions, and
\* attempted in its result, is the number of problems for which the client
\* returned a completion.
C19_ClientOutputAccepted ==
    \A m \in Models :
        /\ (call[m].status = "returned" /\ call[m].ret # None) =>
              /\ Head(call[m].ret[1]) = "def"
              /\ format_completion(0, call[m].ret[1]) # None
        /\ malformed[m] = 0
        /\ Len(results[m]) = got[m]
        /\ (pc[m] = "returned" /\ ret[m] # None) => ret[m][1].attempted = got[m]

\* of two problems the client failed on one and returned, for the other, a
\* text it had trimmed to its first "def"
C19_Witness ==
    \E m \in Models :
        /\ pc[m] = "returned"
        /\ ret[m] # None
        /\ Len(probs[m]) = 2
        /\ got[m] = 1
        /\ ret[m][1].attempted = 1
        /\ results[m][1].completion = <<"def", "ws", "def">>

\* C20: in every non-null result, whatever the sample limit, 0 <= attempted
\* <= total_requested, attempted is the length of the completions list, and
\* the completions have pairwise distinct task ids of the working subset.
C20_CountsConsistent ==
    \A m \in Models :
        (pc[m] = "returned" /\ ret[m] # None) =>
            LET r == ret[m][1] IN
            /\ 0 <= r.attempted
            /\ r.attempted <= r.total_requested
            /\ r.attempted = Len(r.completions)
            /\ \A i, j \in 1..Len(r.completions) :
                  r.completions[i].task_id = r.completions[j].task_id => i = j
            /\ \A i \in 1..Len(r.completions) :
                  \E k \in 1..Len(probs[m]) :
                      probs[m][k].task_id = r.completions[i].task_id

====
